---- MODULE Spec2Model ----
(***************************************************************************)
(* Notification scheduling and delivery core of alx-polly.                 *)
(*                                                                         *)
(* Instants are whole seconds since an epoch (UTC).  A time zone is a      *)
(* fixed offset from UTC in seconds (daylight-saving changes are not       *)
(* modelled).  A time of day "HH:MM:SS" is the tuple of its three fields.  *)
(***************************************************************************)
EXTENDS Integers, Sequences, FiniteSets, TLC

VARIABLES
  now,        \* the clock: new Date() / NOW()
  notification_preferences,  \* table: set of rows, at most one per user_id
  polls,      \* table: sequence of rows, id = position
  votes,      \* table: set of rows [poll_id, voter_id]
  notification_queue,        \* table: sequence of rows, id = position
  email_notifications,       \* table (ledger): sequence of rows, id = position
  runs,       \* per processor invocation: its position and local variables
  requests,   \* per processor invocation: the HTTP request that asked for it
  calls,      \* per caller of the preference store: its call in progress
  nTicks,        \* number of clock ticks so far (bounds the model)
  serverTz,   \* time zone of the process that evaluates Date local fields
  qPrefs,     \* quiet-hours evaluator: the preferences argument
  qTarget,    \* quiet-hours evaluator: the targetTime argument
  qInQuiet,   \* <<isInQuietHours(qPrefs, qTarget)>> once evaluated, else <<>>
  qNext       \* <<getNextDeliveryTime(qPrefs, qTarget)>> once evaluated, else <<>>

quietVars == <<qPrefs, qTarget, qInQuiet, qNext>>
dbVars == <<notification_preferences, polls, votes, notification_queue>>
procVars == <<email_notifications, runs>>
httpVars == <<requests, calls>>
vars == <<now, notification_preferences, polls, votes, notification_queue,
          email_notifications, runs, requests, calls, nTicks, serverTz,
          qPrefs, qTarget, qInQuiet, qNext>>

----------------------------------------------------------------------------
(* Calendar arithmetic *)

SecondsPerMinute == 60 * 1
SecondsPerHour == 60 * 60
SecondsPerDay == 24 * 60 * 60

\* The zones the model draws from, with their UTC offsets in seconds.
Timezones == {"UTC", "America/New_York", "Asia/Kolkata"}

TzOffset(tz) ==
  CASE tz = "UTC" -> 0
    [] tz = "America/New_York" -> 0 - 5 * SecondsPerHour
    [] tz = "Asia/Kolkata" -> 5 * SecondsPerHour + 30 * SecondsPerMinute

\* First instant of the model's calendar: midnight UTC of day 10.
Epoch0 == 10 * SecondsPerDay

\* targetTime.toLocaleString("en-US", {timeZone}): the wall clock of the
\* instant in that zone, as seconds on the wall-clock axis.
ToLocaleString(t, tz) == t + TzOffset(tz)

\* new Date(string): a date string without zone is read as local time of the
\* running process.
ParseAsLocal(wall) == wall - TzOffset(serverTz)

\* Date.prototype.getHours / getMinutes / getSeconds: local fields.
GetHours(d) == ((d + TzOffset(serverTz)) % SecondsPerDay) \div SecondsPerHour
GetMinutes(d) == ((d + TzOffset(serverTz)) % SecondsPerHour) \div SecondsPerMinute
GetSeconds(d) == (d + TzOffset(serverTz)) % SecondsPerMinute

\* Date.prototype.setHours(h, m, 0, 0): same local date, given local time.
SetHours(d, h, m) ==
  LET loc == d + TzOffset(serverTz)
  IN  (loc - (loc % SecondsPerDay)) + h * SecondsPerHour + m * SecondsPerMinute
        - TzOffset(serverTz)

\* d.setDate(d.getDate() + 1)
AddOneDay(d) == d + SecondsPerDay

----------------------------------------------------------------------------
(* Invocations of the delivery processor *)

\* The processor invocations that may overlap in time.
Runs == {"r1", "r2"}

\* An invocation that is not running: no batch, counters at zero.
IdleRun ==
  [ pc |-> "idle", queuedNotifications |-> <<>>, i |-> 0, found |-> FALSE,
    preferences |-> {}, emailResult |-> <<>>,
    processedCount |-> [success |-> 0, failed |-> 0, skipped |-> 0] ]

\* The callers of the preference store whose calls may be in progress
\* together, and a caller with no call in progress and none answered.
Callers == {"c1", "c2"}

IdleCall ==
  [ pc |-> "idle", kind |-> "", user |-> "", body |-> <<>>, response |-> <<>> ]

----------------------------------------------------------------------------
(* Quiet-hours evaluator (lib/types/notifications.ts) *)

isInQuietHours_IgnoresZone(preferences, targetTime) ==
  LET currentTimeMinutes == GetHours(targetTime) * 60 + GetMinutes(targetTime)
      quietStartMinutes == preferences.quiet_hours_start[1] * 60
                             + preferences.quiet_hours_start[2]
      quietEndMinutes == preferences.quiet_hours_end[1] * 60
                           + preferences.quiet_hours_end[2]
  IN  IF quietStartMinutes > quietEndMinutes
        THEN currentTimeMinutes >= quietStartMinutes
               \/ currentTimeMinutes < quietEndMinutes
        ELSE currentTimeMinutes >= quietStartMinutes
               /\ currentTimeMinutes < quietEndMinutes

isInQuietHours(preferences, targetTime) ==
  LET userTime == ParseAsLocal(ToLocaleString(targetTime, preferences.timezone))
      currentHour == GetHours(userTime)
      currentMinute == GetMinutes(userTime)
      currentTimeMinutes == currentHour * 60 + currentMinute
      startHour == preferences.quiet_hours_start[1]
      startMinute == preferences.quiet_hours_start[2]
      endHour == preferences.quiet_hours_end[1]
      endMinute == preferences.quiet_hours_end[2]
      quietStartMinutes == startHour * 60 + startMinute
      quietEndMinutes == endHour * 60 + endMinute
  IN  IF quietStartMinutes > quietEndMinutes
        THEN currentTimeMinutes >= quietStartMinutes
               \/ currentTimeMinutes < quietEndMinutes
        ELSE currentTimeMinutes >= quietStartMinutes
               /\ currentTimeMinutes < quietEndMinutes

getNextDeliveryTime_KeepsSeconds(preferences, targetTime) ==
  IF ~isInQuietHours(preferences, targetTime)
    THEN targetTime
    ELSE
      LET userTime == ParseAsLocal(ToLocaleString(targetTime, preferences.timezone))
          endHour == preferences.quiet_hours_end[1]
          endMinute == preferences.quiet_hours_end[2]
          deliveryTime == SetHours(userTime, endHour, endMinute)
                            + GetSeconds(userTime)
          startHour == preferences.quiet_hours_start[1]
      IN  IF endHour < startHour /\ GetHours(userTime) >= startHour
            THEN AddOneDay(deliveryTime)
            ELSE deliveryTime

getNextDeliveryTime(preferences, targetTime) ==
  IF ~isInQuietHours(preferences, targetTime)
    THEN targetTime
    ELSE
      LET userTime == ParseAsLocal(ToLocaleString(targetTime, preferences.timezone))
          endHour == preferences.quiet_hours_end[1]
          endMinute == preferences.quiet_hours_end[2]
          deliveryTime == SetHours(userTime, endHour, endMinute)
          startHour == preferences.quiet_hours_start[1]
      IN  IF endHour < startHour /\ GetHours(userTime) >= startHour
            THEN AddOneDay(deliveryTime)
            ELSE deliveryTime

----------------------------------------------------------------------------
(* Inputs of the quiet-hours evaluator *)

\* Quiet windows <<start, end>>: the default overnight window, a same-day
\* window, an overnight window with minutes, an overnight window that starts
\* and ends within the same hour, and an empty window.
QuietWindows ==
  { << <<22, 0, 0>>, <<8, 0, 0>> >>,
    << <<12, 0, 0>>, <<14, 0, 0>> >>,
    << <<23, 15, 0>>, <<6, 45, 0>> >>,
    << <<22, 30, 0>>, <<22, 10, 0>> >>,
    << <<9, 0, 0>>, <<9, 0, 0>> >> }

\* Number of calendar days the sampled instants span.
MaxDays == 1

SampleHours == {0, 3, 6, 7, 8, 9, 12, 13, 14, 18, 21, 22, 23}
SampleMinutes == {0, 5, 20, 45}
SampleSeconds == {0, 42}

SampleInstants ==
  { Epoch0 + d * SecondsPerDay + h * SecondsPerHour + m * SecondsPerMinute + s :
      d \in 0..(MaxDays - 1), h \in SampleHours, m \in SampleMinutes,
      s \in SampleSeconds }

QuietPrefs ==
  { [quiet_hours_start |-> w[1], quiet_hours_end |-> w[2], timezone |-> tz] :
      w \in QuietWindows, tz \in Timezones }

InitQuiet ==
  /\ now = Epoch0
  /\ notification_preferences = {}
  /\ polls = <<>>
  /\ votes = {}
  /\ notification_queue = <<>>
  /\ email_notifications = <<>>
  /\ runs = [r \in Runs |-> IdleRun]
  /\ requests = [r \in Runs |-> <<>>]
  /\ calls = [c \in Callers |-> IdleCall]
  /\ nTicks = 0
  /\ serverTz \in Timezones
  /\ qPrefs \in QuietPrefs
  /\ qTarget \in SampleInstants
  /\ qInQuiet = <<>>
  /\ qNext = <<>>

\* A caller evaluates isInQuietHours(preferences, targetTime).
EvalIsInQuietHours ==
  /\ qInQuiet = <<>>
  /\ qInQuiet' = <<isInQuietHours(qPrefs, qTarget)>>
  /\ UNCHANGED <<now, dbVars, procVars, httpVars, nTicks, serverTz, qPrefs, qTarget, qNext>>

\* A caller evaluates getNextDeliveryTime(preferences, targetTime).
EvalGetNextDeliveryTime ==
  /\ qNext = <<>>
  /\ qNext' = <<getNextDeliveryTime(qPrefs, qTarget)>>
  /\ UNCHANGED <<now, dbVars, procVars, httpVars, nTicks, serverTz, qPrefs, qTarget, qInQuiet>>

NextQuiet == EvalIsInQuietHours \/ EvalGetNextDeliveryTime

SpecQuiet == InitQuiet /\ [][NextQuiet]_vars

----------------------------------------------------------------------------
(* Preference store (app/api/notifications/preferences/route.ts) *)

Users == {"u1", "u2"}

DEFAULT_NOTIFICATION_PREFERENCES ==
  [ email_enabled |-> TRUE,
    poll_closing_24h |-> TRUE,
    poll_closing_1h |-> TRUE,
    poll_closed_immediately |-> TRUE,
    new_poll_notifications |-> FALSE,
    voting_reminders |-> TRUE,
    results_announcements |-> TRUE,
    admin_notifications |-> FALSE,
    notification_frequency |-> "immediate",
    quiet_hours_start |-> <<22, 0, 0>>,
    quiet_hours_end |-> <<8, 0, 0>>,
    timezone |-> "UTC" ]

\* .from('notification_preferences').select('*').eq('user_id', u): the rows.
PrefRows(u) == { np \in notification_preferences : np.user_id = u }

\* GET: the stored record; when there is none, the defaults are inserted.
PreferencesGET(u) ==
  /\ PrefRows(u) = {}
  /\ notification_preferences' = notification_preferences
       \cup { [user_id |-> u] @@ DEFAULT_NOTIFICATION_PREFERENCES }
  /\ UNCHANGED <<now, polls, votes, notification_queue, nTicks, serverTz, procVars, httpVars, quietVars>>

\* PATCH with a valid body: update the user's row; when there is none
\* (PGRST116), insert the defaults overlaid with the updates.
PreferencesPATCH(u, updates) ==
  /\ notification_preferences' =
       IF PrefRows(u) # {}
         THEN (notification_preferences \ PrefRows(u))
                \cup { updates @@ np : np \in PrefRows(u) }
         ELSE notification_preferences
                \cup { [user_id |-> u] @@ updates @@ DEFAULT_NOTIFICATION_PREFERENCES }
  /\ UNCHANGED <<now, polls, votes, notification_queue, nTicks, serverTz, procVars, httpVars, quietVars>>

----------------------------------------------------------------------------
(* Preference routes and client, request by request *)
(*                                                                         *)
(* A time of day travels in a request body as text, here the sequence of   *)
(* its characters; the store keeps it as a TIME, here <<h, m, s>>.         *)

Digits == {"0", "1", "2", "3", "4", "5", "6", "7", "8", "9"}

DigitValue(ch) ==
  CASE ch = "0" -> 0 [] ch = "1" -> 1 [] ch = "2" -> 2 [] ch = "3" -> 3
    [] ch = "4" -> 4 [] ch = "5" -> 5 [] ch = "6" -> 6 [] ch = "7" -> 7
    [] ch = "8" -> 8 [] ch = "9" -> 9

\* /^([0-1]?[0-9]|2[0-3]):[0-5][0-9]:[0-5][0-9]$/ on the text str.
timeRegex(str) ==
  LET MinSec(k) == /\ str[k] = ":"
                   /\ str[k + 1] \in {"0", "1", "2", "3", "4", "5"}
                   /\ str[k + 2] \in Digits
  IN  \/ /\ Len(str) = 8
         /\ \/ str[1] \in {"0", "1"} /\ str[2] \in Digits
            \/ str[1] = "2" /\ str[2] \in {"0", "1", "2", "3"}
         /\ MinSec(3)
         /\ MinSec(6)
      \/ /\ Len(str) = 7
         /\ str[1] \in Digits
         /\ MinSec(2)
         /\ MinSec(5)

\* The text a TIME column accepts, among texts made of digits and colons:
\* one or two digits of hour, two of minute and optionally two of second,
\* separated by colons, each in range.  The result is <<TRUE, <<h, m, s>>>>,
\* or <<FALSE>> for text the column rejects (invalid input syntax, field out
\* of range).
TimeInput(str) ==
  LET colon == IF Len(str) >= 2 /\ str[2] = ":" THEN 2
               ELSE IF Len(str) >= 3 /\ str[3] = ":" THEN 3 ELSE 0
      rest == IF colon = 0 THEN <<>> ELSE SubSeq(str, colon + 1, Len(str))
      shape == /\ colon # 0
               /\ \A k \in 1..(colon - 1) : str[k] \in Digits
               /\ Len(rest) \in {2, 5}
               /\ rest[1] \in Digits /\ rest[2] \in Digits
               /\ Len(rest) = 5 =>
                    rest[3] = ":" /\ rest[4] \in Digits /\ rest[5] \in Digits
      Number(a, b) == 10 * DigitValue(a) + DigitValue(b)
      h == IF colon = 2 THEN DigitValue(str[1]) ELSE Number(str[1], str[2])
      m == Number(rest[1], rest[2])
      sec == IF Len(rest) = 5 THEN Number(rest[4], rest[5]) ELSE 0
  IN  IF shape /\ h <= 23 /\ m <= 59 /\ sec <= 59
        THEN <<TRUE, <<h, m, sec>>>>
        ELSE <<FALSE>>

TimeFields == {"quiet_hours_start", "quiet_hours_end"}

\* CHECK (notification_frequency IN ('immediate', 'daily', 'weekly'))
Frequencies == {"immediate", "daily", "weekly"}

\* The fields a body may set: the columns of notification_preferences other
\* than the keys and timestamps.
validFields ==
  { "email_enabled", "poll_closing_24h", "poll_closing_1h",
    "poll_closed_immediately", "new_poll_notifications", "voting_reminders",
    "results_announcements", "admin_notifications", "notification_frequency",
    "quiet_hours_start", "quiet_hours_end", "timezone" }

\* The store takes the column values of body: every field is a column, the
\* frequency passes the CHECK constraint and the quiet-hours texts are valid
\* TIME input.
StoreAccepts(body) ==
  /\ DOMAIN body \subseteq validFields
  /\ "notification_frequency" \in DOMAIN body
       => body.notification_frequency \in Frequencies
  /\ \A f \in TimeFields \cap DOMAIN body : TimeInput(body[f])[1]

\* The column values the store keeps for an accepted body.
StoredValues(body) ==
  [f \in DOMAIN body |-> IF f \in TimeFields THEN TimeInput(body[f])[2] ELSE body[f]]

\* The answer of a call: the caller is idle again and holds the status.
Answer(c, kind, u, body, status) ==
  [calls EXCEPT ![c] = [ pc |-> "idle", kind |-> kind, user |-> u, body |-> body,
                         response |-> <<status>> ]]

prefFrame == <<now, polls, votes, notification_queue, nTicks, serverTz,
               procVars, requests, quietVars>>

\* GET, first request: select the user's row; answer it when there is one.
GETSelect(c, u) ==
  /\ calls[c].pc = "idle"
  /\ calls' = IF PrefRows(u) # {}
                THEN Answer(c, "GET", u, <<>>, 200)
                ELSE [calls EXCEPT ![c] = [ pc |-> "GET_insert", kind |-> "GET",
                                            user |-> u, body |-> <<>>,
                                            response |-> <<>> ]]
  /\ UNCHANGED notification_preferences
  /\ UNCHANGED prefFrame

\* GET, second request: insert the defaults; UNIQUE(user_id) rejects the
\* insert when the user has a row by now (answer 500).
GETInsert(c) ==
  /\ calls[c].pc = "GET_insert"
  /\ LET u == calls[c].user
     IN  IF PrefRows(u) # {}
           THEN /\ calls' = Answer(c, "GET", u, <<>>, 500)
                /\ UNCHANGED notification_preferences
           ELSE /\ calls' = Answer(c, "GET", u, <<>>, 200)
                /\ notification_preferences' = notification_preferences
                     \cup { [user_id |-> u] @@ DEFAULT_NOTIFICATION_PREFERENCES }
  /\ UNCHANGED prefFrame

\* The checks of PATCH on its body; a field that is absent or empty text
\* is not checked.
PatchBodyValid(updates) ==
  /\ DOMAIN updates \subseteq validFields
  /\ ("notification_frequency" \in DOMAIN updates
        /\ updates.notification_frequency # "")
       => updates.notification_frequency \in Frequencies
  /\ \A f \in TimeFields \cap DOMAIN updates :
       updates[f] # <<>> => timeRegex(updates[f])

\* The user's row after an update with the column values of body.
Updated(u, body) ==
  (notification_preferences \ PrefRows(u))
    \cup { StoredValues(body) @@ np : np \in PrefRows(u) }

\* Variant of the second request of PATCH on a table without UNIQUE(user_id).
PATCHInsert_NoUnique(c) ==
  /\ calls[c].pc = "PATCH_insert"
  /\ LET u == calls[c].user
         updates == calls[c].body
     IN  IF ~StoreAccepts(updates)
           THEN /\ calls' = Answer(c, "PATCH", u, updates, 500)
                /\ UNCHANGED notification_preferences
           ELSE /\ calls' = Answer(c, "PATCH", u, updates, 200)
                /\ notification_preferences' = notification_preferences
                     \cup { [user_id |-> u] @@ StoredValues(updates)
                              @@ DEFAULT_NOTIFICATION_PREFERENCES }
  /\ UNCHANGED prefFrame

\* PATCH, first request: a body that fails the checks is answered 400;
\* otherwise the update is sent: the store rejects it (500), or updates the
\* user's row (200), or finds no row (PGRST116).
PATCHUpdate(c, u, updates) ==
  /\ calls[c].pc = "idle"
  /\ IF ~PatchBodyValid(updates)
       THEN /\ calls' = Answer(c, "PATCH", u, updates, 400)
            /\ UNCHANGED notification_preferences
       ELSE IF \E f \in TimeFields \cap DOMAIN updates : ~TimeInput(updates[f])[1]
         THEN /\ calls' = Answer(c, "PATCH", u, updates, 500)
              /\ UNCHANGED notification_preferences
       ELSE IF PrefRows(u) = {}
         THEN /\ calls' = [calls EXCEPT ![c] =
                   [ pc |-> "PATCH_insert", kind |-> "PATCH", user |-> u,
                     body |-> updates, response |-> <<>> ]]
              /\ UNCHANGED notification_preferences
       ELSE IF ~StoreAccepts(updates)
         THEN /\ calls' = Answer(c, "PATCH", u, updates, 500)
              /\ UNCHANGED notification_preferences
         ELSE /\ calls' = Answer(c, "PATCH", u, updates, 200)
              /\ notification_preferences' = Updated(u, updates)
  /\ UNCHANGED prefFrame

\* PATCH, second request: insert the defaults overlaid with the updates;
\* the store rejects a row it does not accept or a second row of the user.
PATCHInsert(c) ==
  /\ calls[c].pc = "PATCH_insert"
  /\ LET u == calls[c].user
         updates == calls[c].body
     IN  IF PrefRows(u) # {} \/ ~StoreAccepts(updates)
           THEN /\ calls' = Answer(c, "PATCH", u, updates, 500)
                /\ UNCHANGED notification_preferences
           ELSE /\ calls' = Answer(c, "PATCH", u, updates, 200)
                /\ notification_preferences' = notification_preferences
                     \cup { [user_id |-> u] @@ StoredValues(updates)
                              @@ DEFAULT_NOTIFICATION_PREFERENCES }
  /\ UNCHANGED prefFrame

\* PUT: the defaults overlaid with the body; only the type of email_enabled
\* is checked; one upsert on user_id.
PUT(c, u, body) ==
  /\ calls[c].pc = "idle"
  /\ LET preferences == body @@ DEFAULT_NOTIFICATION_PREFERENCES
     IN  IF preferences.email_enabled \notin BOOLEAN
           THEN /\ calls' = Answer(c, "PUT", u, body, 400)
                /\ UNCHANGED notification_preferences
         ELSE IF ~StoreAccepts(body)
           THEN /\ calls' = Answer(c, "PUT", u, body, 500)
                /\ UNCHANGED notification_preferences
           ELSE /\ calls' = Answer(c, "PUT", u, body, 200)
                /\ notification_preferences' =
                     (notification_preferences \ PrefRows(u))
                       \cup { [user_id |-> u] @@ StoredValues(body)
                                @@ DEFAULT_NOTIFICATION_PREFERENCES }
  /\ UNCHANGED prefFrame

\* updateNotificationPreferences (client): one update of the user's row,
\* with no check before it; an error of the store, or no row, is returned
\* as a failure (kept here as status 500).
updateNotificationPreferences(c, u, preferences) ==
  /\ calls[c].pc = "idle"
  /\ IF PrefRows(u) = {} \/ ~StoreAccepts(preferences)
       THEN /\ calls' = Answer(c, "client", u, preferences, 500)
            /\ UNCHANGED notification_preferences
       ELSE /\ calls' = Answer(c, "client", u, preferences, 200)
            /\ notification_preferences' = Updated(u, preferences)
  /\ UNCHANGED prefFrame

\* Request bodies: valid ones, an unknown frequency, a time without
\* seconds, a time out of range, text that is no time, an unknown field.
PrefBodies ==
  { [email_enabled |-> FALSE],
    [notification_frequency |-> "daily"],
    [notification_frequency |-> "hourly"],
    [quiet_hours_start |-> <<"2", "3", ":", "1", "5", ":", "0", "0">>],
    [quiet_hours_start |-> <<"2", "1", ":", "3", "0">>],
    [quiet_hours_end |-> <<"2", "5", ":", "0", "0", ":", "0", "0">>],
    [quiet_hours_end |-> <<"s", "o", "o", "n">>],
    [is_admin |-> TRUE] }

PrefUsers == {"u1"}

NextPrefs ==
  \/ \E c \in Callers, u \in PrefUsers : GETSelect(c, u)
  \/ \E c \in Callers : GETInsert(c)
  \/ \E c \in Callers, u \in PrefUsers, b \in PrefBodies : PATCHUpdate(c, u, b)
  \/ \E c \in Callers : PATCHInsert(c)
  \/ \E c \in Callers, u \in PrefUsers, b \in PrefBodies : PUT(c, u, b)
  \/ \E c \in Callers, u \in PrefUsers, b \in PrefBodies :
       updateNotificationPreferences(c, u, b)

----------------------------------------------------------------------------
(* Event-to-queue scheduler: trigger queue_poll_closing_notifications *)

NotificationTypes ==
  {"poll_closing_24h", "poll_closing_1h", "poll_closed",
   "new_poll", "voting_reminder", "results_announcement"}

\* The preference column that enables a notification type.
TypeFlag(type) ==
  CASE type = "poll_closing_24h" -> "poll_closing_24h"
    [] type = "poll_closing_1h" -> "poll_closing_1h"
    [] type = "poll_closed" -> "poll_closed_immediately"
    [] type = "new_poll" -> "new_poll_notifications"
    [] type = "voting_reminder" -> "voting_reminders"
    [] type = "results_announcement" -> "results_announcements"

\* A new notification_queue row: status defaults to 'scheduled',
\* processed_at to NULL (the empty tuple).
QueueRow(user, poll, type, at) ==
  [ user_id |-> user, poll_id |-> poll, notification_type |-> type,
    scheduled_for |-> at, status |-> "scheduled", processed_at |-> <<>> ]

\* EXISTS (SELECT 1 FROM votes WHERE poll_id = NewRow.id AND voter_id = user)
HasVoted(NewRow, user) == [poll_id |-> NewRow.id, voter_id |-> user] \in votes

\* The rows of the three INSERT ... SELECT statements of the trigger, by
\* notification type, over the preference rows np the statement can see.
\* NULL end_time is the empty tuple.
TriggerRows_AtLeast24h(NewRow, np) ==
  LET E == NewRow.end_time
      r24 == IF E # <<>> /\ E[1] >= now + 24 * SecondsPerHour
               THEN { QueueRow(r.user_id, NewRow.id, "poll_closing_24h",
                               E[1] - 24 * SecondsPerHour) :
                        r \in { x \in np : /\ x.email_enabled
                                           /\ x.poll_closing_24h
                                           /\ \/ x.user_id = NewRow.creator_id
                                              \/ HasVoted(NewRow, x.user_id)
                                              \/ x.new_poll_notifications } }
               ELSE {}
      r1  == IF E # <<>> /\ E[1] > now + SecondsPerHour
               THEN { QueueRow(r.user_id, NewRow.id, "poll_closing_1h",
                               E[1] - SecondsPerHour) :
                        r \in { x \in np : /\ x.email_enabled
                                           /\ x.poll_closing_1h
                                           /\ \/ x.user_id = NewRow.creator_id
                                              \/ HasVoted(NewRow, x.user_id)
                                              \/ x.new_poll_notifications } }
               ELSE {}
      rc  == IF E # <<>>
               THEN { QueueRow(r.user_id, NewRow.id, "poll_closed", E[1]) :
                        r \in { x \in np : /\ x.email_enabled
                                           /\ x.poll_closed_immediately
                                           /\ \/ x.user_id = NewRow.creator_id
                                              \/ HasVoted(NewRow, x.user_id) } }
               ELSE {}
  IN  <<r24, r1, rc>>

\* The trigger's statements with the email_enabled condition left out of the
\* poll_closed statement.
TriggerRows_ClosedIgnoresEmailEnabled(NewRow, np) ==
  LET E == NewRow.end_time
      r24 == IF E # <<>> /\ E[1] > now + 24 * SecondsPerHour
               THEN { QueueRow(r.user_id, NewRow.id, "poll_closing_24h",
                               E[1] - 24 * SecondsPerHour) :
                        r \in { x \in np : /\ x.email_enabled
                                           /\ x.poll_closing_24h
                                           /\ \/ x.user_id = NewRow.creator_id
                                              \/ HasVoted(NewRow, x.user_id)
                                              \/ x.new_poll_notifications } }
               ELSE {}
      r1  == IF E # <<>> /\ E[1] > now + SecondsPerHour
               THEN { QueueRow(r.user_id, NewRow.id, "poll_closing_1h",
                               E[1] - SecondsPerHour) :
                        r \in { x \in np : /\ x.email_enabled
                                           /\ x.poll_closing_1h
                                           /\ \/ x.user_id = NewRow.creator_id
                                              \/ HasVoted(NewRow, x.user_id)
                                              \/ x.new_poll_notifications } }
               ELSE {}
      rc  == IF E # <<>>
               THEN { QueueRow(r.user_id, NewRow.id, "poll_closed", E[1]) :
                        r \in { x \in np : /\ x.poll_closed_immediately
                                           /\ \/ x.user_id = NewRow.creator_id
                                              \/ HasVoted(NewRow, x.user_id) } }
               ELSE {}
  IN  <<r24, r1, rc>>

TriggerRows(NewRow, np) ==
  LET E == NewRow.end_time
      r24 == IF E # <<>> /\ E[1] > now + 24 * SecondsPerHour
               THEN { QueueRow(r.user_id, NewRow.id, "poll_closing_24h",
                               E[1] - 24 * SecondsPerHour) :
                        r \in { x \in np : /\ x.email_enabled
                                           /\ x.poll_closing_24h
                                           /\ \/ x.user_id = NewRow.creator_id
                                              \/ HasVoted(NewRow, x.user_id)
                                              \/ x.new_poll_notifications } }
               ELSE {}
      r1  == IF E # <<>> /\ E[1] > now + SecondsPerHour
               THEN { QueueRow(r.user_id, NewRow.id, "poll_closing_1h",
                               E[1] - SecondsPerHour) :
                        r \in { x \in np : /\ x.email_enabled
                                           /\ x.poll_closing_1h
                                           /\ \/ x.user_id = NewRow.creator_id
                                              \/ HasVoted(NewRow, x.user_id)
                                              \/ x.new_poll_notifications } }
               ELSE {}
      rc  == IF E # <<>>
               THEN { QueueRow(r.user_id, NewRow.id, "poll_closed", E[1]) :
                        r \in { x \in np : /\ x.email_enabled
                                           /\ x.poll_closed_immediately
                                           /\ \/ x.user_id = NewRow.creator_id
                                              \/ HasVoted(NewRow, x.user_id) } }
               ELSE {}
  IN  <<r24, r1, rc>>

\* The orders in which an INSERT ... SELECT without ORDER BY may store a set
\* of rows.
Orderings(S) ==
  { q \in [1..Cardinality(S) -> S] : \A i, j \in 1..Cardinality(S) :
                                        i # j => q[i] # q[j] }

\* The users who create polls in the model; every user may vote, enqueue and
\* change preferences.
Creators == {"u1"}

\* Number of polls the model follows.
MaxPolls == 1

\* End times a new poll may carry, relative to its creation.
EndOffsets ==
  { 30 * SecondsPerMinute, 24 * SecondsPerHour, 48 * SecondsPerHour }

\* INSERT INTO polls by `creator`, with the AFTER INSERT trigger in the same
\* statement.  The trigger function is not SECURITY DEFINER, so it runs with
\* the rights of the inserting session: a session subject to row level
\* security (rls) sees only its own preference row and may not insert into
\* notification_queue (the table has a SELECT policy only), which aborts the
\* whole statement; a session that bypasses it (service role, owner) sees
\* every row and inserts.
InsertPoll(creator, end, rls) ==
  /\ Len(polls) < MaxPolls
  /\ LET NewRow == [ id |-> Len(polls) + 1, creator_id |-> creator,
                  created_at |-> now, end_time |-> end ]
         visible == IF rls THEN PrefRows(creator) ELSE notification_preferences
         rows == TriggerRows(NewRow, visible)
     IN  IF rls /\ (rows[1] \cup rows[2] \cup rows[3]) # {}
           THEN UNCHANGED <<polls, notification_queue>>
           ELSE /\ polls' = Append(polls, NewRow)
                /\ \E o24 \in Orderings(rows[1]), o1 \in Orderings(rows[2]),
                      oc \in Orderings(rows[3]) :
                     notification_queue' = notification_queue \o o24 \o o1 \o oc
  /\ UNCHANGED <<now, notification_preferences, votes, nTicks,
                 serverTz, procVars, httpVars, quietVars>>

\* The users who vote in the model.
Voters == {"u2"}

\* A user votes on an existing poll (one vote per user and poll).
CastVote(voter, poll) ==
  /\ poll \in 1..Len(polls)
  /\ [poll_id |-> poll, voter_id |-> voter] \notin votes
  /\ votes' = votes \cup { [poll_id |-> poll, voter_id |-> voter] }
  /\ UNCHANGED <<now, notification_preferences, polls, notification_queue,
                 nTicks, serverTz, procVars, httpVars, quietVars>>

\* Number of queue rows up to which manual enqueues are followed.
MaxQueue == 2

\* queueNotification (lib/notificationApi): a plain insert of a row for the
\* signed-in user; the store either accepts it or returns an error (row level
\* security, a foreign key), in which case nothing is stored.
queueNotification(user, pollId, notificationType, scheduledFor, accepted) ==
  /\ Len(notification_queue) < MaxQueue
  /\ notification_queue' =
       IF accepted
         THEN Append(notification_queue,
                     QueueRow(user, pollId, notificationType, scheduledFor))
         ELSE notification_queue
  /\ UNCHANGED <<now, notification_preferences, polls, votes,
                 nTicks, serverTz, procVars, httpVars, quietVars>>

\* Number of clock ticks the model follows, and the tick lengths.
MaxTicks == 1

TickSteps == { 9 * SecondsPerHour }

Tick ==
  /\ nTicks < MaxTicks
  /\ \E d \in TickSteps : now' = now + d
  /\ nTicks' = nTicks + 1
  /\ UNCHANGED <<dbVars, serverTz, procVars, httpVars, quietVars>>

\* Update bodies of PATCH the scheduler model draws from.
SchedPatchBodies ==
  { [email_enabled |-> FALSE],
    [poll_closing_24h |-> FALSE],
    [new_poll_notifications |-> TRUE] }

InitTables ==
  /\ now = Epoch0
  /\ notification_preferences = {}
  /\ polls = <<>>
  /\ votes = {}
  /\ notification_queue = <<>>
  /\ email_notifications = <<>>
  /\ runs = [r \in Runs |-> IdleRun]
  /\ requests = [r \in Runs |-> <<>>]
  /\ calls = [c \in Callers |-> IdleCall]
  /\ nTicks = 0
  /\ qPrefs = [quiet_hours_start |-> <<22, 0, 0>>, quiet_hours_end |-> <<8, 0, 0>>,
               timezone |-> "UTC"]
  /\ qTarget = Epoch0
  /\ qInQuiet = <<>>
  /\ qNext = <<>>

InitSched ==
  /\ InitTables
  /\ serverTz = "UTC"

NextSched ==
  \/ \E u \in Users : PreferencesGET(u)
  \/ \E u \in Users, b \in SchedPatchBodies : PreferencesPATCH(u, b)
  \/ \E u \in Creators, rls \in BOOLEAN,
        end \in {<<>>} \cup { <<now + d>> : d \in EndOffsets } :
       InsertPoll(u, end, rls)
  \/ \E u \in Voters, p \in 1..Len(polls) : CastVote(u, p)
  \/ \E u \in Users, p \in 1..Len(polls), ok \in BOOLEAN :
       queueNotification(u, p, "poll_closed", Epoch0 + 72 * SecondsPerHour, ok)

SpecSched == InitSched /\ [][NextSched]_vars

----------------------------------------------------------------------------
(* Delivery processor (supabase/functions/process-notifications/index.ts) *)
(*                                                                         *)
(* Each action is one awaited request of processScheduledNotifications     *)
(* together with the synchronous code that leads to it; pc names the       *)
(* request whose answer the invocation holds.                              *)

\* .limit(50)
BatchLimit == 50

Min(a, b) == IF a < b THEN a ELSE b

\* The entry the invocation r is handling.
Cur(r) == runs[r].queuedNotifications[runs[r].i]

\* .update(fields).eq('id', id) on notification_queue: no condition on status.
UpdateQueue(id, fields) ==
  [notification_queue EXCEPT ![id] = fields @@ notification_queue[id]]

\* Variant of the loop step in which a failed entry ends the invocation.
Advance_AbortOnFailure(r, counter) ==
  LET run == runs[r]
      counted == [run.processedCount EXCEPT ![counter] = @ + 1]
  IN  IF run.i < Len(run.queuedNotifications) /\ counter # "failed"
        THEN [run EXCEPT !.pc = "selected", !.i = run.i + 1, !.found = FALSE,
                         !.preferences = {}, !.emailResult = <<>>,
                         !.processedCount = counted]
        ELSE [IdleRun EXCEPT !.processedCount = counted]

\* processedCount.<counter>++ and the step of the for loop: the next entry
\* of the batch, or the return of the summary after the last one.
Advance(r, counter) ==
  LET run == runs[r]
      counted == [run.processedCount EXCEPT ![counter] = @ + 1]
  IN  IF run.i < Len(run.queuedNotifications)
        THEN [run EXCEPT !.pc = "selected", !.i = run.i + 1, !.found = FALSE,
                         !.preferences = {}, !.emailResult = <<>>,
                         !.processedCount = counted]
        ELSE [IdleRun EXCEPT !.processedCount = counted]

\* Variant of the select without the status filter.
DueEntries_AnyStatus ==
  { id \in 1..Len(notification_queue) :
      notification_queue[id].scheduled_for <= now }

\* Variant of the select that also takes failed entries (a retry loop).
DueEntries_WithFailed ==
  { id \in 1..Len(notification_queue) :
      /\ notification_queue[id].status \in {"scheduled", "failed"}
      /\ notification_queue[id].scheduled_for <= now }

\* The entries the select of an invocation matches: status scheduled and
\* scheduled_for <= now.
DueEntries ==
  { id \in 1..Len(notification_queue) :
      /\ notification_queue[id].status = "scheduled"
      /\ notification_queue[id].scheduled_for <= now }

\* Variant of the select without the limit: every due entry is returned.
StartRun_NoLimit(r, queueError, order) ==
  /\ runs[r].pc = "idle"
  /\ IF queueError \/ DueEntries = {}
       THEN /\ order = <<>>
            /\ runs' = [runs EXCEPT ![r] = IdleRun]
       ELSE /\ Len(order) = Cardinality(DueEntries)
            /\ { order[k] : k \in 1..Len(order) } \subseteq DueEntries
            /\ Cardinality({ order[k] : k \in 1..Len(order) }) = Len(order)
            /\ runs' = [runs EXCEPT ![r] =
                 [IdleRun EXCEPT
                    !.pc = "selected",
                    !.i = 1,
                    !.queuedNotifications =
                       [k \in 1..Len(order) |->
                          [ id |-> order[k],
                            user_id |-> notification_queue[order[k]].user_id,
                            poll_id |-> notification_queue[order[k]].poll_id,
                            notification_type |->
                              notification_queue[order[k]].notification_type ]]]]
  /\ UNCHANGED <<now, dbVars, email_notifications, nTicks, serverTz, quietVars>>

\* The select of the due entries: at most BatchLimit of them, in the order
\* the store returns them (order: the ids of the rows returned).  A query
\* error makes the invocation throw; an empty result makes it return.
StartRun(r, queueError, order) ==
  /\ runs[r].pc = "idle"
  /\ IF queueError \/ DueEntries = {}
       THEN /\ order = <<>>
            /\ runs' = [runs EXCEPT ![r] = IdleRun]
       ELSE /\ Len(order) = Min(BatchLimit, Cardinality(DueEntries))
            /\ { order[k] : k \in 1..Len(order) } \subseteq DueEntries
            /\ Cardinality({ order[k] : k \in 1..Len(order) }) = Len(order)
            /\ runs' = [runs EXCEPT ![r] =
                 [IdleRun EXCEPT
                    !.pc = "selected",
                    !.i = 1,
                    !.queuedNotifications =
                       [k \in 1..Len(order) |->
                          [ id |-> order[k],
                            user_id |-> notification_queue[order[k]].user_id,
                            poll_id |-> notification_queue[order[k]].poll_id,
                            notification_type |->
                              notification_queue[order[k]].notification_type ]]]]
  /\ UNCHANGED <<now, dbVars, email_notifications, nTicks, serverTz, quietVars>>

\* Mark as processing.
MarkProcessing(r) ==
  /\ runs[r].pc = "selected"
  /\ notification_queue' = UpdateQueue(Cur(r).id, [status |-> "processing"])
  /\ runs' = [runs EXCEPT ![r].pc = "marked"]
  /\ UNCHANGED <<now, notification_preferences, polls, votes,
                 email_notifications, nTicks, serverTz, httpVars, quietVars>>

\* auth.admin.getUserById: the user directory answers with a user that has
\* an email address (found) or with an error or a user without one.
GetUser(r, found) ==
  /\ runs[r].pc = "marked"
  /\ runs' = [runs EXCEPT ![r].pc = "gotUser", ![r].found = found]
  /\ UNCHANGED <<now, dbVars, email_notifications, nTicks, serverTz, httpVars, quietVars>>

\* The lookup failed: the throw is caught, the entry is marked failed.
CatchFailed(r) ==
  /\ runs[r].pc = "gotUser"
  /\ ~runs[r].found
  /\ notification_queue' =
       UpdateQueue(Cur(r).id, [status |-> "failed", processed_at |-> <<now>>])
  /\ runs' = [runs EXCEPT ![r] = Advance(r, "failed")]
  /\ UNCHANGED <<now, notification_preferences, polls, votes,
                 email_notifications, nTicks, serverTz, httpVars, quietVars>>

\* Get user preferences: the row of the recipient, if any.
GetPreferences(r) ==
  /\ runs[r].pc = "gotUser"
  /\ runs[r].found
  /\ runs' = [runs EXCEPT ![r].pc = "gotPrefs",
                          ![r].preferences = PrefRows(Cur(r).user_id)]
  /\ UNCHANGED <<now, dbVars, email_notifications, nTicks, serverTz, httpVars, quietVars>>

\* preferences && !preferences.email_enabled
EmailDisabled(r) == \E np \in runs[r].preferences : ~np.email_enabled

\* preferences && isInQuietHours(preferences): evaluated at new Date().
InQuietNow(r) == \E np \in runs[r].preferences : isInQuietHours(np, now)

\* Notifications are disabled: the entry is cancelled.
CancelEntry(r) ==
  /\ runs[r].pc = "gotPrefs"
  /\ EmailDisabled(r)
  /\ notification_queue' =
       UpdateQueue(Cur(r).id, [status |-> "cancelled", processed_at |-> <<now>>])
  /\ runs' = [runs EXCEPT ![r] = Advance(r, "skipped")]
  /\ UNCHANGED <<now, notification_preferences, polls, votes,
                 email_notifications, nTicks, serverTz, httpVars, quietVars>>

\* The end of quiet hours the processor reschedules to: today's
\* quiet_hours_end on the clock of the process, or tomorrow's when that is
\* not after the present.
ProcessorNextDelivery(preferences) ==
  LET endHour == preferences.quiet_hours_end[1]
      endMinute == preferences.quiet_hours_end[2]
      nextDelivery == SetHours(now, endHour, endMinute)
  IN  IF nextDelivery <= now THEN AddOneDay(nextDelivery) ELSE nextDelivery

\* Variant of the deferral that also stamps processed_at.
RescheduleEntry_SetsProcessedAt(r) ==
  /\ runs[r].pc = "gotPrefs"
  /\ ~EmailDisabled(r)
  /\ InQuietNow(r)
  /\ \E np \in runs[r].preferences :
       notification_queue' =
         UpdateQueue(Cur(r).id, [status |-> "scheduled",
                                 scheduled_for |-> ProcessorNextDelivery(np),
                                 processed_at |-> <<now>>])
  /\ runs' = [runs EXCEPT ![r] = Advance(r, "skipped")]
  /\ UNCHANGED <<now, notification_preferences, polls, votes,
                 email_notifications, nTicks, serverTz, httpVars, quietVars>>

\* Quiet hours: the entry goes back to scheduled at the end of quiet hours.
RescheduleEntry(r) ==
  /\ runs[r].pc = "gotPrefs"
  /\ ~EmailDisabled(r)
  /\ InQuietNow(r)
  /\ \E np \in runs[r].preferences :
       notification_queue' =
         UpdateQueue(Cur(r).id, [status |-> "scheduled",
                                 scheduled_for |-> ProcessorNextDelivery(np)])
  /\ runs' = [runs EXCEPT ![r] = Advance(r, "skipped")]
  /\ UNCHANGED <<now, notification_preferences, polls, votes,
                 email_notifications, nTicks, serverTz, httpVars, quietVars>>

\* What sendEmail can return: a message id of the provider, or an error text
\* (the provider's message, its HTTP status, or the message of an exception).
ProviderAnswers ==
  { [success |-> TRUE, messageId |-> "re_1", error |-> ""],
    [success |-> TRUE, messageId |-> "re_2", error |-> ""],
    [success |-> FALSE, messageId |-> "", error |-> "rate limit exceeded"],
    [success |-> FALSE, messageId |-> "", error |-> "HTTP 500"] }

\* sendEmail: the provider answers with a message id or with an error.
SendEmail(r, answer) ==
  /\ runs[r].pc = "gotPrefs"
  /\ ~EmailDisabled(r)
  /\ ~InQuietNow(r)
  /\ runs' = [runs EXCEPT ![r].pc = "sentEmail", ![r].emailResult = <<answer>>]
  /\ UNCHANGED <<now, dbVars, email_notifications, nTicks, serverTz, httpVars, quietVars>>

\* Variant of the ledger write that records every attempt as sent.
LogNotification_AlwaysSent(r) ==
  /\ runs[r].pc = "sentEmail"
  /\ LET res == runs[r].emailResult[1]
         n == Cur(r)
     IN  email_notifications' = Append(email_notifications,
           [ user_id |-> n.user_id, poll_id |-> n.poll_id,
             notification_type |-> n.notification_type,
             email_address |-> n.user_id,
             status |-> "sent",
             sent_at |-> IF res.success THEN <<now>> ELSE <<>>,
             failed_at |-> IF res.success THEN <<>> ELSE <<now>>,
             failure_reason |-> res.error,
             email_provider_id |-> res.messageId,
             retry_count |-> 0 ])
  /\ runs' = [runs EXCEPT ![r].pc = "logged"]
  /\ UNCHANGED <<now, dbVars, nTicks, serverTz, httpVars, quietVars>>

\* Log the attempt in email_notifications.
LogNotification(r) ==
  /\ runs[r].pc = "sentEmail"
  /\ LET res == runs[r].emailResult[1]
         n == Cur(r)
     IN  email_notifications' = Append(email_notifications,
           [ user_id |-> n.user_id, poll_id |-> n.poll_id,
             notification_type |-> n.notification_type,
             email_address |-> n.user_id,
             status |-> IF res.success THEN "sent" ELSE "failed",
             sent_at |-> IF res.success THEN <<now>> ELSE <<>>,
             failed_at |-> IF res.success THEN <<>> ELSE <<now>>,
             failure_reason |-> res.error,
             email_provider_id |-> res.messageId,
             retry_count |-> 0 ])
  /\ runs' = [runs EXCEPT ![r].pc = "logged"]
  /\ UNCHANGED <<now, dbVars, nTicks, serverTz, httpVars, quietVars>>

\* Mark the queue item as sent or failed.
MarkOutcome(r) ==
  /\ runs[r].pc = "logged"
  /\ LET res == runs[r].emailResult[1]
     IN  /\ notification_queue' =
              UpdateQueue(Cur(r).id,
                          [status |-> IF res.success THEN "sent" ELSE "failed",
                           processed_at |-> <<now>>])
         /\ runs' = [runs EXCEPT ![r] =
                       Advance(r, IF res.success THEN "success" ELSE "failed")]
  /\ UNCHANGED <<now, notification_preferences, polls, votes,
                 email_notifications, nTicks, serverTz, httpVars, quietVars>>

\* Update bodies of PATCH, the poll end times and the users the processor
\* model draws from.
ProcPatchBodies ==
  { [email_enabled |-> FALSE],
    [poll_closed_immediately |-> FALSE],
    [timezone |-> "America/New_York"] }

ProcEndOffsets == { 0, 25 * SecondsPerHour }

\* The results the select may return: rows that match it, in any order.
RowOrders ==
  UNION { Orderings(S) : S \in SUBSET DueEntries }

InitProc ==
  /\ InitTables
  /\ serverTz = "UTC"

Next ==
  \/ \E u \in Creators : PreferencesGET(u)
  \/ \E u \in Creators, b \in ProcPatchBodies : PreferencesPATCH(u, b)
  \/ \E u \in Creators, end \in { <<now + d>> : d \in ProcEndOffsets } :
       InsertPoll(u, end, FALSE)
  \/ Tick
  \/ \E r \in Runs, queueError \in BOOLEAN, order \in RowOrders :
       StartRun(r, queueError, order) /\ UNCHANGED httpVars
  \/ \E r \in Runs : MarkProcessing(r)
  \/ \E r \in Runs, found \in BOOLEAN : GetUser(r, found)
  \/ \E r \in Runs : CatchFailed(r)
  \/ \E r \in Runs : GetPreferences(r)
  \/ \E r \in Runs : CancelEntry(r)
  \/ \E r \in Runs : RescheduleEntry(r)
  \/ \E r \in Runs, answer \in ProviderAnswers : SendEmail(r, answer)
  \/ \E r \in Runs : LogNotification(r)
  \/ \E r \in Runs : MarkOutcome(r)

Spec == InitProc /\ [][Next]_vars

----------------------------------------------------------------------------
(* The processor run by a timer, one invocation after the other *)

\* An invocation that starts when no other invocation is running.
StartRunAlone(r, queueError, order) ==
  /\ \A o \in Runs : runs[o].pc = "idle"
  /\ StartRun(r, queueError, order)
  /\ UNCHANGED httpVars

\* The timer-driven model: one invocation record is enough, since no two
\* invocations are alive together; the provider answers with a message id
\* or an error; the user turns email off or moves to New York; a poll that
\* closes 90 minutes after its creation has two entries due within one tick.
SeqRuns == {"r1"}

SeqAnswers ==
  { a \in ProviderAnswers : a.messageId = "re_1" \/ a.error = "HTTP 500" }

SeqPatchBodies ==
  { [email_enabled |-> FALSE], [timezone |-> "America/New_York"] }

SeqEndOffsets == { 0, 90 * SecondsPerMinute }

NextSeq ==
  \/ \E u \in Creators : PreferencesGET(u)
  \/ \E u \in Creators, b \in SeqPatchBodies : PreferencesPATCH(u, b)
  \/ \E u \in Creators, end \in { <<now + d>> : d \in SeqEndOffsets } :
       InsertPoll(u, end, FALSE)
  \/ Tick
  \/ \E r \in SeqRuns, queueError \in BOOLEAN, order \in RowOrders :
       StartRunAlone(r, queueError, order)
  \/ \E r \in SeqRuns : MarkProcessing(r)
  \/ \E r \in SeqRuns, found \in BOOLEAN : GetUser(r, found)
  \/ \E r \in SeqRuns : CatchFailed(r)
  \/ \E r \in SeqRuns : GetPreferences(r)
  \/ \E r \in SeqRuns : CancelEntry(r)
  \/ \E r \in SeqRuns : RescheduleEntry(r)
  \/ \E r \in SeqRuns, answer \in SeqAnswers : SendEmail(r, answer)
  \/ \E r \in SeqRuns : LogNotification(r)
  \/ \E r \in SeqRuns : MarkOutcome(r)

SpecSeq == InitProc /\ [][NextSeq]_vars

----------------------------------------------------------------------------
(* One invocation in front of a backlog around the batch limit *)

\* The elements of a set of row ids in increasing order.
InIdOrder(S) ==
  LET Member(id) == id \in S
  IN  SelectSeq([id \in 1..Len(notification_queue) |-> id], Member)

\* Results of the select in id order: all the due rows, or all but one.
IdOrderBatches ==
  { InIdOrder(DueEntries) } \cup { InIdOrder(DueEntries \ {x}) : x \in DueEntries }

\* Numbers of due entries the backlog starts with.
BacklogSizes == { BatchLimit - 1, BatchLimit, BatchLimit + 1 }

\* The closing time of the polls of the backlog, and of the poll still open.
BacklogPoll(id, n) ==
  [ id |-> id, creator_id |-> "u1", created_at |-> Epoch0 - 30 * SecondsPerMinute,
    end_time |-> << IF id <= n + 1 THEN Epoch0 ELSE Epoch0 + 30 * SecondsPerMinute >> ]

\* A backlog left by the scheduler: u1 (preferences in New York, where
\* Epoch0 is outside quiet hours) has n polls that closed at Epoch0, each
\* with its poll_closed entry due; one more closed poll whose entry was
\* cancelled; and one poll that closes in 30 minutes, whose entry is not due.
InitBatch ==
  /\ now = Epoch0
  /\ serverTz = "UTC"
  /\ notification_preferences =
       { [user_id |-> "u1"] @@ [timezone |-> "America/New_York"]
           @@ DEFAULT_NOTIFICATION_PREFERENCES }
  /\ votes = {}
  /\ \E n \in BacklogSizes :
       /\ polls = [id \in 1..(n + 2) |-> BacklogPoll(id, n)]
       /\ notification_queue =
            [id \in 1..(n + 2) |->
               IF id <= n THEN QueueRow("u1", id, "poll_closed", Epoch0)
               ELSE IF id = n + 1
                 THEN [ QueueRow("u1", id, "poll_closed", Epoch0) EXCEPT
                          !.status = "cancelled", !.processed_at = <<Epoch0>> ]
                 ELSE QueueRow("u1", id, "poll_closed",
                               Epoch0 + 30 * SecondsPerMinute)]
  /\ email_notifications = <<>>
  /\ runs = [r \in Runs |-> IdleRun]
  /\ requests = [r \in Runs |-> <<>>]
  /\ calls = [c \in Callers |-> IdleCall]
  /\ nTicks = 0
  /\ qPrefs = [quiet_hours_start |-> <<22, 0, 0>>, quiet_hours_end |-> <<8, 0, 0>>,
               timezone |-> "UTC"]
  /\ qTarget = Epoch0
  /\ qInQuiet = <<>>
  /\ qNext = <<>>

\* One invocation at a time, the user directory and the provider answering.
NextBatch ==
  \/ \E order \in IdOrderBatches : StartRunAlone("r1", FALSE, order)
  \/ MarkProcessing("r1")
  \/ GetUser("r1", TRUE)
  \/ GetPreferences("r1")
  \/ \E answer \in { a \in ProviderAnswers : a.messageId = "re_1" } :
       SendEmail("r1", answer)
  \/ LogNotification("r1")
  \/ MarkOutcome("r1")

SpecBatch == InitBatch /\ [][NextBatch]_vars

----------------------------------------------------------------------------
(* The HTTP entry point of the processor (Deno.serve handler) *)

Methods == {"GET", "POST"}

\* What a request carries as authorization: no header, a token that is
\* neither the service key nor a user's, the service role key, a user token.
Credentials == {"none", "invalid", "service_key", "user_token"}

\* The handler: a POST without authorization header, or with a token that is
\* not the service key and that auth.getUser does not accept, is answered
\* 401; every other request runs processScheduledNotifications and is
\* answered 200, or 500 when that throws.
Serve(r, method, credential, queueError, order) ==
  IF method = "POST" /\ credential \in {"none", "invalid"}
    THEN /\ runs[r].pc = "idle"
         /\ order = <<>>
         /\ ~queueError
         /\ requests' = [requests EXCEPT ![r] =
              << [method |-> method, credential |-> credential, status |-> 401] >>]
         /\ UNCHANGED <<now, dbVars, procVars, calls, nTicks, serverTz, quietVars>>
    ELSE /\ StartRun(r, queueError, order)
         /\ requests' = [requests EXCEPT ![r] =
              << [method |-> method, credential |-> credential,
                  status |-> IF queueError THEN 500 ELSE 200] >>]
         /\ UNCHANGED calls

NextServe ==
  \/ \E u \in Creators : PreferencesPATCH(u, [timezone |-> "America/New_York"])
  \/ \E u \in Creators : InsertPoll(u, <<now>>, FALSE)
  \/ \E r \in Runs, method \in Methods, credential \in Credentials,
        queueError \in BOOLEAN, order \in RowOrders :
       Serve(r, method, credential, queueError, order)
  \/ \E r \in Runs : MarkProcessing(r)
  \/ \E r \in Runs, found \in BOOLEAN : GetUser(r, found)
  \/ \E r \in Runs : CatchFailed(r)
  \/ \E r \in Runs : GetPreferences(r)
  \/ \E r \in Runs, answer \in SeqAnswers : SendEmail(r, answer)
  \/ \E r \in Runs : LogNotification(r)
  \/ \E r \in Runs : MarkOutcome(r)

SpecServe == InitProc /\ [][NextServe]_vars

----------------------------------------------------------------------------
(* The preference store under concurrent requests *)

SpecPrefs == InitSched /\ [][NextPrefs]_vars

----------------------------------------------------------------------------
(* Entries queued and cancelled by hand (lib/notificationApi) in front of *)
(* the timer-driven processor                                             *)

\* cancelScheduledNotification: .update({status: 'cancelled'}) on the row
\* with this id and the signed-in user's user_id, whatever its status.  The
\* store applies it (permitted) or, under row level security without an
\* UPDATE policy, matches no row and reports no error.
cancelScheduledNotification(user, queueId, permitted) ==
  /\ queueId \in 1..Len(notification_queue)
  /\ notification_queue' =
       IF permitted /\ notification_queue[queueId].user_id = user
         THEN UpdateQueue(queueId, [status |-> "cancelled"])
         ELSE notification_queue
  /\ UNCHANGED <<now, notification_preferences, polls, votes,
                 nTicks, serverTz, procVars, httpVars, quietVars>>

\* The users who queue and cancel entries by hand; they have no preference
\* row unless they ask for one.
ManualUsers == {"u2"}

NextManual ==
  \/ \E u \in Creators : InsertPoll(u, <<now>>, FALSE)
  \/ \E u \in ManualUsers, p \in 1..Len(polls), ok \in BOOLEAN :
       queueNotification(u, p, "voting_reminder", now, ok)
  \/ \E u \in ManualUsers, id \in 1..Len(notification_queue),
        permitted \in BOOLEAN :
       cancelScheduledNotification(u, id, permitted)
  \/ Tick
  \/ \E r \in SeqRuns, queueError \in BOOLEAN, order \in RowOrders :
       StartRunAlone(r, queueError, order)
  \/ \E r \in SeqRuns : MarkProcessing(r)
  \/ \E r \in SeqRuns, found \in BOOLEAN : GetUser(r, found)
  \/ \E r \in SeqRuns : CatchFailed(r)
  \/ \E r \in SeqRuns : GetPreferences(r)
  \/ \E r \in SeqRuns, answer \in SeqAnswers : SendEmail(r, answer)
  \/ \E r \in SeqRuns : LogNotification(r)
  \/ \E r \in SeqRuns : MarkOutcome(r)

SpecManual == InitProc /\ [][NextManual]_vars

----------------------------------------------------------------------------
(* Immediate delivery routes (app/api/notifications/send, .../test) next  *)
(* to the timer-driven processor                                          *)

\* poll_id of a ledger row written without a poll (pollId is optional in
\* the body of /send; SERIAL ids start at 1), and the poll id the test
\* route writes.
NoPoll == 0

TestPollId == 999

\* A row of email_notifications as the routes and the processor insert it.
LedgerRow(userId, pollId, notificationType, res) ==
  [ user_id |-> userId, poll_id |-> pollId,
    notification_type |-> notificationType,
    email_address |-> userId,
    status |-> IF res.success THEN "sent" ELSE "failed",
    sent_at |-> IF res.success THEN <<now>> ELSE <<>>,
    failed_at |-> IF res.success THEN <<>> ELSE <<now>>,
    failure_reason |-> res.error,
    email_provider_id |-> res.messageId,
    retry_count |-> 0 ]

\* INSERT INTO email_notifications: the row is stored unless its poll_id
\* names no poll (foreign key); the routes ignore or only log the error.
InsertLedger(row) ==
  IF row.poll_id = NoPoll \/ row.poll_id \in 1..Len(polls)
    THEN Append(email_notifications, row)
    ELSE email_notifications

routeFrame ==
  <<now, notification_preferences, polls, votes, notification_queue,
    nTicks, serverTz, runs, requests, quietVars>>

\* POST /api/notifications/send up to its decision to send: the token is
\* verified, the target user is looked up (found: exists with an email
\* address), the target's preferences are read; a missing row counts as
\* email enabled and every type enabled.
SendRouteCheck(c, authorized, userId, notificationType, pollId, found) ==
  /\ calls[c].pc = "idle"
  /\ calls[c].kind = ""
  /\ LET preferences == PrefRows(userId)
         emailEnabled == \A np \in preferences : np.email_enabled
         typeEnabled == \A np \in preferences : np[TypeFlag(notificationType)]
         body == [notificationType |-> notificationType, pollId |-> pollId]
     IN  calls' =
           IF ~authorized
             THEN Answer(c, "send", userId, body, 401)
           ELSE IF ~found
             THEN Answer(c, "send", userId, body, 404)
           ELSE IF ~emailEnabled \/ ~typeEnabled
             THEN Answer(c, "send", userId, body, 400)
           ELSE [calls EXCEPT ![c] =
                   [ pc |-> "send_email", kind |-> "send", user |-> userId,
                     body |-> body, response |-> <<>> ]]
  /\ UNCHANGED <<email_notifications, routeFrame>>

\* Variant of the route's ledger write in which a failed attempt also
\* carries sent_at.
SendRouteDeliver_StampsSentAt(c, answer) ==
  /\ calls[c].pc = "send_email"
  /\ LET row == LedgerRow(calls[c].user, calls[c].body.pollId,
                          calls[c].body.notificationType, answer)
     IN  email_notifications' = InsertLedger([row EXCEPT !.sent_at = <<now>>])
  /\ calls' = Answer(c, "send", calls[c].user, calls[c].body,
                     IF answer.success THEN 200 ELSE 500)
  /\ UNCHANGED routeFrame

\* The rest of POST /api/notifications/send: sendNotificationEmail answers,
\* the attempt is logged as sent or failed, the caller is answered.
SendRouteDeliver(c, answer) ==
  /\ calls[c].pc = "send_email"
  /\ email_notifications' =
       InsertLedger(LedgerRow(calls[c].user, calls[c].body.pollId,
                              calls[c].body.notificationType, answer))
  /\ calls' = Answer(c, "send", calls[c].user, calls[c].body,
                     IF answer.success THEN 200 ELSE 500)
  /\ UNCHANGED routeFrame

\* POST /api/notifications/test: the token is verified, the test email goes
\* to the caller's own address, and a successful send is logged with the
\* poll id of the test data.  No stored preference is read.
TestRoute(c, authorized, user, notificationType, answer) ==
  /\ calls[c].pc = "idle"
  /\ calls[c].kind = ""
  /\ LET body == [notificationType |-> notificationType, pollId |-> TestPollId]
     IN  IF ~authorized
           THEN /\ calls' = Answer(c, "test", user, body, 401)
                /\ UNCHANGED email_notifications
         ELSE IF ~answer.success
           THEN /\ calls' = Answer(c, "test", user, body, 500)
                /\ UNCHANGED email_notifications
         ELSE /\ calls' = Answer(c, "test", user, body, 200)
              /\ email_notifications' =
                   InsertLedger(LedgerRow(user, TestPollId, notificationType, answer))
  /\ UNCHANGED routeFrame

\* The notification types the callers of the routes ask for, and the poll
\* ids they name.
RouteTypes == {"poll_closed"}

RoutePolls == {NoPoll, 1}

NextDelivery ==
  \/ \E u \in Creators : PreferencesGET(u)
  \/ \E u \in Creators, b \in SeqPatchBodies : PreferencesPATCH(u, b)
  \/ \E u \in Creators : InsertPoll(u, <<now>>, FALSE)
  \/ \E r \in SeqRuns, queueError \in BOOLEAN, order \in RowOrders :
       StartRunAlone(r, queueError, order)
  \/ \E r \in SeqRuns : MarkProcessing(r)
  \/ \E r \in SeqRuns, found \in BOOLEAN : GetUser(r, found)
  \/ \E r \in SeqRuns : CatchFailed(r)
  \/ \E r \in SeqRuns : GetPreferences(r)
  \/ \E r \in SeqRuns : CancelEntry(r)
  \/ \E r \in SeqRuns : RescheduleEntry(r)
  \/ \E r \in SeqRuns, answer \in SeqAnswers : SendEmail(r, answer)
  \/ \E r \in SeqRuns : LogNotification(r)
  \/ \E r \in SeqRuns : MarkOutcome(r)
  \/ \E c \in Callers, authorized \in BOOLEAN, u \in Creators,
        t \in RouteTypes, p \in RoutePolls, found \in BOOLEAN :
       SendRouteCheck(c, authorized, u, t, p, found)
  \/ \E c \in Callers, answer \in SeqAnswers : SendRouteDeliver(c, answer)
  \/ \E c \in Callers, authorized \in BOOLEAN, u \in Creators,
        t \in RouteTypes, answer \in SeqAnswers :
       TestRoute(c, authorized, u, t, answer)

SpecDelivery == InitProc /\ [][NextDelivery]_vars

----------------------------------------------------------------------------
(* The processor in front of a store whose writes may return an error *)

\* The ledger insert returns an error: supabase-js does not throw, the
\* result is not looked at, and the invocation goes on to the queue update.
LogNotificationError(r) ==
  /\ runs[r].pc = "sentEmail"
  /\ runs' = [runs EXCEPT ![r].pc = "logged"]
  /\ UNCHANGED <<now, dbVars, email_notifications, nTicks, serverTz,
                 httpVars, quietVars>>

\* The queue update after the ledger write returns an error: the entry keeps
\* its status, the counter is incremented all the same.
MarkOutcomeError(r) ==
  /\ runs[r].pc = "logged"
  /\ runs' = [runs EXCEPT ![r] =
                Advance(r, IF runs[r].emailResult[1].success
                             THEN "success" ELSE "failed")]
  /\ UNCHANGED <<now, dbVars, email_notifications, nTicks, serverTz,
                 httpVars, quietVars>>

NextStoreErrors ==
  \/ \E u \in Creators : PreferencesGET(u)
  \/ \E u \in Creators, b \in SeqPatchBodies : PreferencesPATCH(u, b)
  \/ \E u \in Creators : InsertPoll(u, <<now>>, FALSE)
  \/ Tick
  \/ \E r \in SeqRuns, queueError \in BOOLEAN, order \in RowOrders :
       StartRunAlone(r, queueError, order)
  \/ \E r \in SeqRuns : MarkProcessing(r)
  \/ \E r \in SeqRuns, found \in BOOLEAN : GetUser(r, found)
  \/ \E r \in SeqRuns : CatchFailed(r)
  \/ \E r \in SeqRuns : GetPreferences(r)
  \/ \E r \in SeqRuns : CancelEntry(r)
  \/ \E r \in SeqRuns : RescheduleEntry(r)
  \/ \E r \in SeqRuns, answer \in SeqAnswers : SendEmail(r, answer)
  \/ \E r \in SeqRuns : LogNotification(r)
  \/ \E r \in SeqRuns : LogNotificationError(r)
  \/ \E r \in SeqRuns : MarkOutcome(r)
  \/ \E r \in SeqRuns : MarkOutcomeError(r)

SpecStoreErrors == InitProc /\ [][NextStoreErrors]_vars

----------------------------------------------------------------------------
(* The processor run again and again while the clock goes round           *)
(*                                                                         *)
(* With fixed-offset zones every decision of the processor reads the time *)
(* of day and the order of instants, never the calendar day.  This model  *)
(* follows the clock hour by hour over one day; at midnight UTC the days  *)
(* are renumbered: every stored instant moves back one day, and instants  *)
(* more than a day in the past are kept at one day in the past.           *)

LiveTickStep == SecondsPerHour

Rebase(t) ==
  IF t - SecondsPerDay < Epoch0 - SecondsPerDay
    THEN Epoch0 - SecondsPerDay
    ELSE t - SecondsPerDay

RebaseNullable(v) == IF v = <<>> THEN <<>> ELSE <<Rebase(v[1])>>

\* new Date() an hour later.  The timer invokes the processor every five
\* minutes and an invocation lasts seconds: before the hour is over, every
\* due entry has been taken by an invocation that ran to its end.
TickDay ==
  /\ \A r \in Runs : runs[r].pc = "idle"
  /\ DueEntries = {}
  /\ IF now + LiveTickStep < Epoch0 + SecondsPerDay
       THEN /\ now' = now + LiveTickStep
            /\ UNCHANGED <<polls, notification_queue, email_notifications>>
       ELSE /\ now' = now + LiveTickStep - SecondsPerDay
            /\ polls' =
                 [i \in DOMAIN polls |->
                    [polls[i] EXCEPT !.created_at = Rebase(@),
                                     !.end_time = RebaseNullable(@)]]
            /\ notification_queue' =
                 [i \in DOMAIN notification_queue |->
                    [notification_queue[i] EXCEPT
                       !.scheduled_for = Rebase(@),
                       !.processed_at = RebaseNullable(@)]]
            /\ email_notifications' =
                 [i \in DOMAIN email_notifications |->
                    [email_notifications[i] EXCEPT
                       !.sent_at = RebaseNullable(@),
                       !.failed_at = RebaseNullable(@)]]
  /\ UNCHANGED <<notification_preferences, votes, runs, nTicks, serverTz,
                 httpVars, quietVars>>

\* The entries the model starts with, the hours of the first day at which
\* they fall due, and the quiet windows of their recipient.
LiveEntries == {1}

LiveDueHours == {0, 4, 23}

LiveWindows ==
  { w \in QuietWindows : w[1] = <<22, 0, 0>> \/ w[1] = <<12, 0, 0>> }

\* One poll_closed entry of u1, whose preferences have email_enabled on, a
\* zone and a quiet window.
InitLive ==
  /\ now = Epoch0
  /\ serverTz = "UTC"
  /\ \E tz \in Timezones, w \in LiveWindows :
       notification_preferences =
         { [user_id |-> "u1"]
             @@ [timezone |-> tz, quiet_hours_start |-> w[1],
                 quiet_hours_end |-> w[2]]
             @@ DEFAULT_NOTIFICATION_PREFERENCES }
  /\ votes = {}
  /\ \E h \in LiveDueHours :
       /\ polls = << [ id |-> 1, creator_id |-> "u1",
                       created_at |-> Epoch0 - SecondsPerHour,
                       end_time |-> <<Epoch0 + h * SecondsPerHour>> ] >>
       /\ notification_queue =
            << QueueRow("u1", 1, "poll_closed", Epoch0 + h * SecondsPerHour) >>
  /\ email_notifications = <<>>
  /\ runs = [r \in Runs |-> IdleRun]
  /\ requests = [r \in Runs |-> <<>>]
  /\ calls = [c \in Callers |-> IdleCall]
  /\ nTicks = 0
  /\ qPrefs = [quiet_hours_start |-> <<22, 0, 0>>, quiet_hours_end |-> <<8, 0, 0>>,
               timezone |-> "UTC"]
  /\ qTarget = Epoch0
  /\ qInQuiet = <<>>
  /\ qNext = <<>>

\* A step of the invocation; the recipient exists and has an email address.
LiveProc ==
  \/ \E queueError \in BOOLEAN, order \in RowOrders :
       StartRunAlone("r1", queueError, order)
  \/ MarkProcessing("r1")
  \/ GetUser("r1", TRUE)
  \/ GetPreferences("r1")
  \/ RescheduleEntry("r1")
  \/ \E answer \in SeqAnswers : SendEmail("r1", answer)
  \/ LogNotification("r1")
  \/ MarkOutcome("r1")

NextLive == TickDay \/ LiveProc

\* The clock keeps going and the timer keeps invoking the processor, whose
\* requests are answered.
SpecLive ==
  InitLive /\ [][NextLive]_vars /\ WF_vars(TickDay) /\ WF_vars(LiveProc)

\* The invocation stops (crash, wall-clock limit of the runtime) after it
\* marked its entry processing and before it recorded an outcome.
Crash(r) ==
  /\ runs[r].pc \in {"marked", "gotUser", "gotPrefs", "sentEmail", "logged"}
  /\ runs' = [runs EXCEPT ![r] = IdleRun]
  /\ UNCHANGED <<now, dbVars, email_notifications, nTicks, serverTz,
                 httpVars, quietVars>>

NextCrash == TickDay \/ LiveProc \/ Crash("r1")

SpecCrash ==
  InitLive /\ [][NextCrash]_vars /\ WF_vars(TickDay) /\ WF_vars(LiveProc)

----------------------------------------------------------------------------
(* Wall-clock reference notions used by the properties *)

\* Minute of the day of instant t on the wall clock of zone tz.
WallMinute(t, tz) == ((t + TzOffset(tz)) % SecondsPerDay) \div SecondsPerMinute

StartMinutes(p) == p.quiet_hours_start[1] * 60 + p.quiet_hours_start[2]
EndMinutes(p) == p.quiet_hours_end[1] * 60 + p.quiet_hours_end[2]

\* t falls in the quiet window of p, read on the wall clock of p.timezone.
InQuietWall(p, t) ==
  LET m == WallMinute(t, p.timezone)
  IN  IF StartMinutes(p) > EndMinutes(p)
        THEN m >= StartMinutes(p) \/ m < EndMinutes(p)
        ELSE StartMinutes(p) <= m /\ m < EndMinutes(p)

\* For t in quiet hours: the first instant at or after t whose wall clock in
\* p.timezone reads quiet_hours_end:00, i.e. the first instant at or after t
\* that is outside the quiet window.
EarliestNonQuiet(p, t) ==
  LET wallSec == (t + TzOffset(p.timezone)) % SecondsPerDay
      endSec == EndMinutes(p) * SecondsPerMinute
  IN  t + ((endSec - wallSec + SecondsPerDay) % SecondsPerDay)

----------------------------------------------------------------------------
(* Properties of the quiet-hours evaluator *)

\* C6: for every instant in quiet hours, getNextDeliveryTime returns an instant
\* r that is not before the target, is itself outside quiet hours, and is the
\* earliest such instant (no instant of [target, r) is outside quiet hours,
\* i.e. r is not after the first instant at which the window ends).
C6_DeferralIsEarliestNonQuiet ==
  (qNext # <<>> /\ InQuietWall(qPrefs, qTarget))
    => /\ qNext[1] >= qTarget
       /\ ~InQuietWall(qPrefs, qNext[1])
       /\ qNext[1] <= EarliestNonQuiet(qPrefs, qTarget)

----------------------------------------------------------------------------
(* Properties of the scheduler *)

\* Positions of the queue rows of user u, poll p and type t among positions I.
EntriesOf(q, I, u, p, t) ==
  { i \in I : /\ q[i].user_id = u
              /\ q[i].poll_id = p
              /\ q[i].notification_type = t }

\* C9: when a poll is created at time T with end time E by a creator whose
\* email_enabled and three poll-closing flags are on, the rows the scheduler
\* adds for the creator are: one poll_closing_24h at E-24h iff E > T+24h, one
\* poll_closing_1h at E-1h iff E > T+1h, one poll_closed at E iff E is not
\* null, and nothing else; each has status scheduled.
C9_CreatorEntries ==
  [][ Len(polls') = Len(polls) + 1 =>
        LET NewRow == polls'[Len(polls')]
            c == NewRow.creator_id
            E == NewRow.end_time
            T == now
            added == (Len(notification_queue) + 1)..Len(notification_queue')
            q == notification_queue'
            n24 == EntriesOf(q, added, c, NewRow.id, "poll_closing_24h")
            n1 == EntriesOf(q, added, c, NewRow.id, "poll_closing_1h")
            nc == EntriesOf(q, added, c, NewRow.id, "poll_closed")
        IN  (\E np \in notification_preferences :
               /\ np.user_id = c
               /\ np.email_enabled
               /\ np.poll_closing_24h
               /\ np.poll_closing_1h
               /\ np.poll_closed_immediately)
            => /\ Cardinality(n24)
                    = (IF E # <<>> /\ E[1] > T + 24 * SecondsPerHour THEN 1 ELSE 0)
               /\ \A i \in n24 : q[i].scheduled_for = E[1] - 24 * SecondsPerHour
               /\ Cardinality(n1)
                    = (IF E # <<>> /\ E[1] > T + SecondsPerHour THEN 1 ELSE 0)
               /\ \A i \in n1 : q[i].scheduled_for = E[1] - SecondsPerHour
               /\ Cardinality(nc) = (IF E # <<>> THEN 1 ELSE 0)
               /\ \A i \in nc : q[i].scheduled_for = E[1]
               /\ \A i \in added :
                    /\ q[i].status = "scheduled"
                    /\ q[i].user_id = c => i \in n24 \cup n1 \cup nc
    ]_vars

\* C9 witness: a poll that ends 48 hours after its creation, whose creator
\* holds exactly three queue rows for it, one of each closing type.
C9_Witness ==
  \E p \in 1..Len(polls) :
    /\ polls[p].end_time = <<polls[p].created_at + 48 * SecondsPerHour>>
    /\ \A t \in {"poll_closing_24h", "poll_closing_1h", "poll_closed"} :
         Cardinality(EntriesOf(notification_queue, 1..Len(notification_queue),
                               polls[p].creator_id, p, t)) = 1

\* C10: the queue never holds two rows with the same user, poll and
\* notification type.
C10_NoDuplicateTriple ==
  \A i, j \in 1..Len(notification_queue) :
    ( /\ notification_queue[i].user_id = notification_queue[j].user_id
      /\ notification_queue[i].poll_id = notification_queue[j].poll_id
      /\ notification_queue[i].notification_type
           = notification_queue[j].notification_type )
    => i = j

----------------------------------------------------------------------------
(* Properties of the delivery processor *)

\* The invocation r has moved its current entry to processing and has not
\* yet finished with it.
Claimed(r) == runs[r].pc \in {"marked", "gotUser", "gotPrefs", "sentEmail", "logged"}

\* C1: no queue entry is claimed (selected and moved to processing) by two
\* processor invocations that overlap in time.
C1_NoDoubleClaim ==
  \A r1, r2 \in Runs :
    (r1 # r2 /\ Claimed(r1) /\ Claimed(r2)) => Cur(r1).id # Cur(r2).id

\* C2: a queue entry whose status is sent, failed or cancelled is never
\* changed again by any step, under any interleaving of processor runs.
C2_TerminalEntriesFrozen ==
  [][ \A id \in 1..Len(notification_queue) :
        notification_queue[id].status \in {"sent", "failed", "cancelled"}
          => notification_queue'[id] = notification_queue[id]
    ]_vars

\* C3: an entry enqueued while its type was enabled for the recipient (every
\* entry here comes from the scheduler, which checks the flag), whose type
\* the recipient has disabled, email_enabled staying on, when the processor
\* reads the preferences, is not sent: no invocation holds a successful send
\* for an entry whose type is off in the preferences it read.
C3_DisabledTypeNotSent ==
  \A r \in Runs :
    (runs[r].pc = "sentEmail" /\ runs[r].emailResult[1].success)
      => \A np \in runs[r].preferences :
           np.email_enabled => np[TypeFlag(Cur(r).notification_type)]

\* C4: when the recipient of a claimed entry has email_enabled off (in the
\* stored row while the user lookup is answered, or in the row the invocation
\* read), the step that ends the handling of the entry cancels it, adds one
\* to skipped and writes no ledger row, and no send is made for it, whatever
\* the user lookup answered.
C4_DisabledRecipientCancelled ==
  [][ \A r \in Runs :
        ( /\ \/ /\ runs[r].pc = "gotUser"
                /\ \E np \in PrefRows(Cur(r).user_id) : ~np.email_enabled
             \/ /\ runs[r].pc = "gotPrefs"
                /\ \E np \in runs[r].preferences : ~np.email_enabled
          /\ runs'[r] # runs[r]
          /\ runs'[r].pc # "gotPrefs" )
        => /\ notification_queue'[Cur(r).id].status = "cancelled"
           /\ runs'[r].processedCount.skipped = runs[r].processedCount.skipped + 1
           /\ runs'[r].processedCount.failed = runs[r].processedCount.failed
           /\ email_notifications' = email_notifications
    ]_vars

\* C5: when an invocation defers an entry because the recipient is in quiet
\* hours, the new scheduled_for is the next instant at which the wall clock
\* of the recipient's timezone reads quiet_hours_end, whatever the timezone
\* of the process.
C5_DeferralToRecipientQuietEnd ==
  [][ \A r \in Runs :
        ( /\ runs[r].pc = "gotPrefs"
          /\ runs'[r] # runs[r]
          /\ notification_queue'[Cur(r).id].status = "scheduled" )
        => \A np \in runs[r].preferences :
             notification_queue'[Cur(r).id].scheduled_for = EarliestNonQuiet(np, now)
    ]_vars

Sends(id) ==
  Cardinality({ k \in 1..Len(email_notifications) :
                  /\ email_notifications[k].user_id = notification_queue[id].user_id
                  /\ email_notifications[k].poll_id = notification_queue[id].poll_id
                  /\ email_notifications[k].notification_type
                       = notification_queue[id].notification_type })
  + Cardinality({ r \in Runs : runs[r].pc = "sentEmail" /\ Cur(r).id = id })

\* The entries of the batch of invocation r that it has not yet marked.
Unhandled(r) ==
  { runs[r].queuedNotifications[k].id :
      k \in { n \in 1..Len(runs[r].queuedNotifications) :
                n > runs[r].i \/ (n = runs[r].i /\ runs[r].pc = "selected") } }

C14_BatchBoundedAndDue ==
  /\ [](\A r \in Runs : Len(runs[r].queuedNotifications) <= 50)
  /\ [][ /\ \A r \in Runs :
              (runs[r].pc = "idle" /\ runs'[r].pc # "idle")
                => \A k \in 1..Len(runs'[r].queuedNotifications) :
                     LET id == runs'[r].queuedNotifications[k].id
                     IN  /\ notification_queue[id].status = "scheduled"
                         /\ notification_queue[id].scheduled_for <= now
         /\ \A id \in 1..Len(notification_queue) :
              notification_queue'[id] # notification_queue[id]
                => \E r \in Runs : runs[r].pc # "idle" /\ Cur(r).id = id
     ]_vars

\* C14 witness: an invocation that found 51 due entries has returned after
\* 50 deliveries; one due entry is still scheduled, and the cancelled entry
\* and the entry not yet due are as they were.
C14_Witness ==
  /\ Len(notification_queue) = 50 + 3
  /\ runs["r1"].pc = "idle"
  /\ runs["r1"].processedCount = [success |-> 50, failed |-> 0, skipped |-> 0]
  /\ Cardinality(DueEntries) = 1
  /\ notification_queue[50 + 2].status = "cancelled"
  /\ notification_queue[50 + 3] =
       QueueRow("u1", 50 + 3, "poll_closed", Epoch0 + 30 * SecondsPerMinute)

\* Entries counted by invocation r so far.
Counted(run) ==
  run.processedCount.success + run.processedCount.failed + run.processedCount.skipped

\* C15: a running invocation has counted exactly the entries before its
\* current one; a step of it either stays on the current entry, or counts it
\* (in one counter) and moves to the next entry of the same batch, or, only
\* on the last entry of the batch, counts it and returns: whatever happened
\* to an entry, the rest of the batch is processed and the summary adds up
\* to the number of selected entries.
C15_EveryEntryCountedOnce ==
  /\ [](\A r \in Runs : runs[r].pc # "idle" => Counted(runs[r]) = runs[r].i - 1)
  /\ [][ \A r \in Runs :
           (runs[r].pc # "idle" /\ runs'[r] # runs[r])
             => \/ /\ runs'[r].pc # "idle"
                   /\ runs'[r].queuedNotifications = runs[r].queuedNotifications
                   /\ runs'[r].i = runs[r].i
                   /\ runs'[r].processedCount = runs[r].processedCount
                \/ /\ runs'[r].pc = "selected"
                   /\ runs'[r].queuedNotifications = runs[r].queuedNotifications
                   /\ runs'[r].i = runs[r].i + 1
                   /\ Counted(runs'[r]) = runs[r].i
                \/ /\ runs'[r].pc = "idle"
                   /\ runs[r].i = Len(runs[r].queuedNotifications)
                   /\ Counted(runs'[r]) = Len(runs[r].queuedNotifications)
     ]_vars

\* C15 witness: the first entry of a batch of two failed and the invocation
\* is about to process the second.
C15_Witness ==
  \E r \in Runs :
    /\ runs[r].pc = "selected"
    /\ runs[r].i = 2
    /\ Len(runs[r].queuedNotifications) = 2
    /\ runs[r].processedCount = [success |-> 0, failed |-> 1, skipped |-> 0]
    /\ notification_queue[runs[r].queuedNotifications[1].id].status = "failed"

----------------------------------------------------------------------------
(* Properties of the HTTP entry point *)

\* C16: every request for which the handler ran the processor (it was not
\* answered 401) carried a valid credential, the service key or a verified
\* user token, whatever its method.
C16_NoRunWithoutCredential ==
  \A r \in Runs :
    (requests[r] # <<>> /\ requests[r][1].status # 401)
      => requests[r][1].credential \in {"service_key", "user_token"}

----------------------------------------------------------------------------
(* Properties of the preference store *)

BodyWellFormed(body) ==
  /\ "notification_frequency" \in DOMAIN body
       => body.notification_frequency \in Frequencies
  /\ \A f \in TimeFields \cap DOMAIN body : timeRegex(body[f])

\* C18: no update (PATCH, PUT, client) whose body carries an invalid
\* frequency or a quiet-hours time that is not HH:MM:SS text is answered
\* with success; and every stored row has a valid frequency and quiet-hours
\* times in range.
C18_MalformedUpdateRejected ==
  /\ \A c \in Callers :
       ( /\ calls[c].pc = "idle"
         /\ calls[c].kind \in {"PATCH", "PUT", "client"}
         /\ calls[c].response = <<200>> )
       => BodyWellFormed(calls[c].body)
  /\ \A np \in notification_preferences :
       /\ np.notification_frequency \in Frequencies
       /\ \A f \in TimeFields :
            np[f][1] \in 0..23 /\ np[f][2] \in 0..59 /\ np[f][3] \in 0..59

----------------------------------------------------------------------------
(* Properties of the scheduler: preference filtering *)

\* C19: when a poll with an end time E is created at time T by a user who
\* has no preference row, the scheduler adds for the creator what it adds
\* for a creator with a default-valued row: one poll_closing_24h iff
\* E > T+24h, one poll_closing_1h iff E > T+1h, and one poll_closed.
C19_NoRecordMeansDefaults ==
  [][ (Len(polls') = Len(polls) + 1 /\ polls'[Len(polls')].end_time # <<>>) =>
        LET NewRow == polls'[Len(polls')]
            c == NewRow.creator_id
            E == NewRow.end_time
            T == now
            added == (Len(notification_queue) + 1)..Len(notification_queue')
            q == notification_queue'
        IN  PrefRows(c) = {}
            => /\ Cardinality(EntriesOf(q, added, c, NewRow.id, "poll_closing_24h"))
                    = (IF E[1] > T + 24 * SecondsPerHour THEN 1 ELSE 0)
               /\ Cardinality(EntriesOf(q, added, c, NewRow.id, "poll_closing_1h"))
                    = (IF E[1] > T + SecondsPerHour THEN 1 ELSE 0)
               /\ Cardinality(EntriesOf(q, added, c, NewRow.id, "poll_closed")) = 1
    ]_vars

\* C20: every row the scheduler adds when a poll is created is for a user
\* who, at that moment, has a preference row with email_enabled on and the
\* flag of the row's type on.
C20_OnlyEnabledTypesEnqueued ==
  [][ Len(polls') = Len(polls) + 1 =>
        \A i \in (Len(notification_queue) + 1)..Len(notification_queue') :
          \E np \in notification_preferences :
            /\ np.user_id = notification_queue'[i].user_id
            /\ np.email_enabled
            /\ np[TypeFlag(notification_queue'[i].notification_type)]
    ]_vars

\* C20 witness: a poll ending 48 hours after its creation got the creator's
\* poll_closing_1h and poll_closed rows but no poll_closing_24h row, the
\* creator having that flag off; and a new-poll subscriber whose
\* email_enabled is off got no row at all.
C20_Witness ==
  \E p \in 1..Len(polls) :
    LET c == polls[p].creator_id
        all == 1..Len(notification_queue)
    IN  /\ polls[p].end_time = <<polls[p].created_at + 48 * SecondsPerHour>>
        /\ \E np \in PrefRows(c) : np.email_enabled /\ ~np.poll_closing_24h
        /\ EntriesOf(notification_queue, all, c, p, "poll_closing_24h") = {}
        /\ EntriesOf(notification_queue, all, c, p, "poll_closing_1h") # {}
        /\ EntriesOf(notification_queue, all, c, p, "poll_closed") # {}
        /\ \E u \in Users \ {c} :
             /\ \E np \in PrefRows(u) :
                  np.new_poll_notifications /\ ~np.email_enabled
             /\ \A i \in all : notification_queue[i].user_id # u

\* C21: when a poll is created, every user who opted into
\* new_poll_notifications and has email_enabled on receives, for each of the
\* three categories whose own flag is on and whose time condition holds, a
\* row of that category, also when that user is neither the creator of the
\* poll nor a voter.
C21_SubscribersInEveryCategory ==
  [][ (Len(polls') = Len(polls) + 1 /\ polls'[Len(polls')].end_time # <<>>) =>
        LET NewRow == polls'[Len(polls')]
            E == NewRow.end_time
            T == now
            added == (Len(notification_queue) + 1)..Len(notification_queue')
            q == notification_queue'
        IN  \A np \in notification_preferences :
              ( /\ np.email_enabled
                /\ np.new_poll_notifications
                /\ np.user_id # NewRow.creator_id
                /\ ~HasVoted(NewRow, np.user_id) )
              => /\ (np.poll_closing_24h /\ E[1] > T + 24 * SecondsPerHour)
                      => EntriesOf(q, added, np.user_id, NewRow.id,
                                   "poll_closing_24h") # {}
                 /\ (np.poll_closing_1h /\ E[1] > T + SecondsPerHour)
                      => EntriesOf(q, added, np.user_id, NewRow.id,
                                   "poll_closing_1h") # {}
                 /\ np.poll_closed_immediately
                      => EntriesOf(q, added, np.user_id, NewRow.id,
                                   "poll_closed") # {}
    ]_vars

----------------------------------------------------------------------------
(* Properties of the delivery processor: dispatch decisions *)

\* C22: when an invocation holds the preferences of the recipient of its
\* entry, email_enabled is on in them and the present instant is in the
\* recipient's quiet hours, its next step makes no send and writes no ledger
\* row; the entry is scheduled again with a different scheduled_for (a later
\* instant), processed_at is still unset, and skipped grows by one while
\* success and failed stay.
C22_QuietHoursDeferral ==
  [][ \A r \in Runs :
        ( /\ runs[r].pc = "gotPrefs"
          /\ runs'[r] # runs[r]
          /\ \E np \in runs[r].preferences :
               np.email_enabled /\ InQuietWall(np, now) )
        => LET id == Cur(r).id
               before == runs[r].processedCount
               after == runs'[r].processedCount
           IN  /\ runs'[r].pc # "sentEmail"
               /\ email_notifications' = email_notifications
               /\ notification_queue'[id].status = "scheduled"
               /\ notification_queue'[id].scheduled_for
                    # notification_queue[id].scheduled_for
               /\ notification_queue'[id].scheduled_for > now
               /\ notification_queue'[id].processed_at = <<>>
               /\ after = [before EXCEPT !.skipped = @ + 1]
    ]_vars

\* C22 witness: an invocation has returned with one skipped entry and no
\* ledger row was written; the entry, a poll_closed entry of a recipient
\* whose email_enabled is on, is scheduled for an instant after the end of
\* its poll, with processed_at unset.
C22_Witness ==
  \E r \in Runs, id \in 1..Len(notification_queue) :
    LET e == notification_queue[id]
    IN  /\ runs[r].pc = "idle"
        /\ runs[r].processedCount = [success |-> 0, failed |-> 0, skipped |-> 1]
        /\ email_notifications = <<>>
        /\ e.notification_type = "poll_closed"
        /\ e.status = "scheduled"
        /\ e.scheduled_for > polls[e.poll_id].end_time[1]
        /\ e.processed_at = <<>>
        /\ PrefRows(e.user_id) # {}
        /\ \A np \in PrefRows(e.user_id) : np.email_enabled

\* C24: when the user lookup for a claimed entry answers with an error or
\* with a user without an email address, the step that handles the answer
\* leaves the entry failed, writes one ledger row with status failed for it
\* and adds one to failed; and the entry, being failed, is not selected
\* again.
C24_MissingRecipientFailsWithLedger ==
  [][ \A r \in Runs :
        (runs[r].pc = "gotUser" /\ ~runs[r].found /\ runs'[r] # runs[r])
        => LET id == Cur(r).id
               n == Cur(r)
           IN  /\ notification_queue'[id].status = "failed"
               /\ runs'[r].processedCount
                    = [runs[r].processedCount EXCEPT !.failed = @ + 1]
               /\ Len(email_notifications') = Len(email_notifications) + 1
               /\ LET row == email_notifications'[Len(email_notifications')]
                  IN  /\ row.status = "failed"
                      /\ row.user_id = n.user_id
                      /\ row.poll_id = n.poll_id
                      /\ row.notification_type = n.notification_type
    ]_vars

\* C23: an invocation that found no preferences row for the recipient of
\* its entry acts as if the defaults were stored: while the present instant
\* is inside the default quiet hours (22:00-08:00 UTC) its next step makes
\* no send and schedules the entry again for a later instant.
C23_NoRecordMeansDefaultQuietHours ==
  [][ \A r \in Runs :
        ( /\ runs[r].pc = "gotPrefs"
          /\ runs'[r] # runs[r]
          /\ runs[r].preferences = {}
          /\ InQuietWall(DEFAULT_NOTIFICATION_PREFERENCES, now) )
        => /\ runs'[r].pc # "sentEmail"
           /\ notification_queue'[Cur(r).id].status = "scheduled"
           /\ notification_queue'[Cur(r).id].scheduled_for > now
    ]_vars

\* C25: every change of the status of a queue entry respects the source
\* states: sent and failed are entered only from processing, cancelled only
\* from processing or scheduled, and scheduled only from processing; so a
\* cancellation by hand does not change an entry that is sent or failed.
C25_StatusChangesFromAllowedSources ==
  [][ \A id \in 1..Len(notification_queue) :
        LET from == notification_queue[id].status
            to == notification_queue'[id].status
        IN  from # to =>
              /\ to \in {"sent", "failed"} => from = "processing"
              /\ to = "cancelled" => from \in {"processing", "scheduled"}
              /\ to = "scheduled" => from = "processing"
    ]_vars

----------------------------------------------------------------------------
(* Properties of the ledger and of the delivery paths *)

\* C26: every ledger row has exactly one of sent_at and failed_at set,
\* sent_at exactly when its status is sent and failed_at exactly when its
\* status is failed; and no step of the processor, of /send or of /test
\* changes or removes a row once it is inserted: the ledger only grows at
\* its end.
C26_LedgerRowsWellFormedAndFrozen ==
  /\ [](\A i \in 1..Len(email_notifications) :
          LET row == email_notifications[i]
          IN  /\ (row.sent_at # <<>>) # (row.failed_at # <<>>)
              /\ (row.sent_at # <<>>) <=> (row.status = "sent")
              /\ (row.failed_at # <<>>) <=> (row.status = "failed"))
  /\ [][ /\ Len(email_notifications') >= Len(email_notifications)
         /\ SubSeq(email_notifications', 1, Len(email_notifications))
              = email_notifications
     ]_vars

\* C26 witness: the ledger holds a failed row written by /send (no poll)
\* followed by a sent row written by the processor for a queue entry that is
\* now sent.
C26_Witness ==
  \E i, j \in 1..Len(email_notifications) :
    /\ i < j
    /\ email_notifications[i].status = "failed"
    /\ email_notifications[i].poll_id = NoPoll
    /\ email_notifications[j].status = "sent"
    /\ \E id \in 1..Len(notification_queue) :
         /\ notification_queue[id].status = "sent"
         /\ notification_queue[id].poll_id = email_notifications[j].poll_id
    /\ \E c \in Callers : calls[c].kind = "send" /\ calls[c].response = <<500>>

\* C30: at every step in which an email is handed to the provider and
\* accepted (by an invocation of the processor, by /send or by /test), the
\* stored preferences of the recipient, if any, have email_enabled on.
C30_NoSendToDisabledRecipient ==
  [][ /\ \A r \in Runs :
           ( /\ runs[r].pc = "gotPrefs"
             /\ runs'[r].pc = "sentEmail"
             /\ runs'[r].emailResult[1].success )
           => \A np \in PrefRows(Cur(r).user_id) : np.email_enabled
      /\ \A c \in Callers :
           ( /\ calls'[c] # calls[c]
             /\ calls'[c].kind \in {"send", "test"}
             /\ calls'[c].response = <<200>> )
           => \A np \in PrefRows(calls'[c].user) : np.email_enabled
    ]_vars

\* C29: in every state a queue entry with status sent has a ledger row with
\* status sent for the same user, poll and notification type; and when an
\* invocation is done with an entry whose send succeeded, the entry has
\* status sent.  Both hold also when the ledger insert or the queue update
\* returns an error.
C29_SentEntriesMatchLedger ==
  /\ [](\A id \in 1..Len(notification_queue) :
          notification_queue[id].status = "sent"
            => \E i \in 1..Len(email_notifications) :
                 /\ email_notifications[i].status = "sent"
                 /\ email_notifications[i].user_id = notification_queue[id].user_id
                 /\ email_notifications[i].poll_id = notification_queue[id].poll_id
                 /\ email_notifications[i].notification_type
                      = notification_queue[id].notification_type)
  /\ [][ \A r \in Runs :
           ( /\ runs[r].pc = "logged"
             /\ runs'[r] # runs[r]
             /\ runs[r].emailResult[1].success )
           => notification_queue'[Cur(r).id].status = "sent"
     ]_vars

----------------------------------------------------------------------------
(* Progress of the queue *)

\* C27: with the processor invoked again and again, the recipient existing
\* and email_enabled on, an entry that is scheduled is eventually sent or
\* failed, in every zone and for every quiet window of the recipient.
C27_ScheduledEventuallyDelivered ==
  \A id \in LiveEntries :
    (notification_queue[id].status = "scheduled")
      ~> (notification_queue[id].status \in {"sent", "failed"})

\* C28: an entry that is processing does not stay processing forever, also
\* when the invocation that marked it stops before recording an outcome.
C28_ProcessingEventuallyLeft ==
  \A id \in LiveEntries :
    (notification_queue[id].status = "processing")
      ~> (notification_queue[id].status # "processing")

====
